---- MODULE Spec2Model ----
(***************************************************************************)
(* Model of opencap-core's per-trial reconstruction pipeline, main() of    *)
(* main.py.  A behaviour is a sequence of runs of main() on one session    *)
(* directory.  What main() reads back from the session directory (the     *)
(* extrinsics cache of every camera, the scaled model) persists between    *)
(* runs; the files it only writes (settings, trajectory) are recorded in   *)
(* the trace of the run; the local variables of main() are fresh in every  *)
(* run.  The functions main() imports (pose detector, synchronizer,        *)
(* triangulator, ...) are environment: each call wrapped in try/except     *)
(* either returns or raises an exception carrying some number of           *)
(* arguments; the calls main() does not wrap are taken to return.          *)
(*                                                                         *)
(* Spec is main() as a whole.  LookupSpec is main() up to its lookup of    *)
(* the rotation angles, over every placement preset.  WorkerSpec is the    *)
(* polling loop of app.py around processTrial, with the API and            *)
(* processTrial as environment; it leaves the session of main() alone, as  *)
(* Spec leaves the worker alone.  MmposeSpec is the polling loop of        *)
(* mmpose/loop_mmpose.py, with the producer of the videos and the two      *)
(* inference functions as environment; its file operations are taken to    *)
(* return.                                                                 *)
(***************************************************************************)
EXTENDS Integers, Sequences, FiniteSets, TLC

\* ---------------------------------------------------------------- bounds
MaxRuns == 2
MaxExcArgs == 3
MaxFrames == 10

\* ------------------------------------------------------ program constants
MinGoodFrames == 10
ThresholdStart == 3
ThresholdMax == 15
ThresholdIncrement == 1

\* the Cam* directories of the session, in the order glob.glob lists them
CameraOrder == <<"Cam0", "Cam1">>
Cameras == {CameraOrder[i] : i \in 1..Len(CameraOrder)}
ExcArgs == 0..MaxExcArgs
FrameCounts == (MinGoodFrames - 1)..MaxFrames

VARIABLES
  cache,            \* camera -> content of cameraIntrinsicsExtrinsics.pickle
  scaledModelFile,  \* the session's scaled model file exists
  placement,        \* sessionMetadata['checkerBoard']['placement']
  run,              \* number of the current (or last) run of main
  pc,               \* position of the current run in main
  args,             \* arguments of the current run
  todo,             \* cameras the current loop has still to visit
  loadedCamParams,  \* camera -> "unset" | "loaded" | "computed"
  CamParamDict,     \* camera -> parameters held by the current run
  locals,           \* which later local variables of main are bound
  trace,            \* stages the current run has executed and files it
                    \* has written ("settings", "cachewrite", "trc"), in order
  err,              \* exception main terminated with
  cacheAtStart,     \* history: cache when the current run started
  written,          \* history: cameras whose cache entry this run wrote
  computed,         \* history: cameras calcExtrinsicsFromVideo ran for
  failed,           \* history: stages whose call raised in this run
  calibDone,        \* history: this run finished its calibration stage
  prevFailed,       \* history: previous run raised after its calibration
  \* the worker of app.py
  wpc,              \* position of the worker in its polling loop
  trial,            \* the trial the last dequeue request returned
  outcome,          \* history: how processTrial ended for that trial
  reported,         \* history: statuses the API received for that trial
  data,             \* folders under the Data directory
  polls,            \* number of dequeue requests issued
  \* the polling loop of mmpose/loop_mmpose.py
  mpc,              \* position of the loop
  videoFile,        \* the file at video_path: 0 none, n the n-th written
  outputDir,        \* files under output_dir, with the round that wrote them
  round,            \* number of processing rounds started
  begun,            \* history: the video each round started on
  produced          \* number of videos written at video_path so far

mainVars == <<cache, scaledModelFile, placement, run, pc,
              args, todo, loadedCamParams, CamParamDict, locals, trace, err,
              cacheAtStart, written, computed, failed, calibDone,
              prevFailed>>
workerVars == <<wpc, trial, outcome, reported, data, polls>>
mmposeVars == <<mpc, videoFile, outputDir, round, begun, produced>>
vars == <<cache, scaledModelFile, placement, run, pc,
          args, todo, loadedCamParams, CamParamDict, locals, trace, err,
          cacheAtStart, written, computed, failed, calibDone,
          prevFailed, wpc, trial, outcome, reported, data, polls,
          mpc, videoFile, outputDir, round, begun, produced>>


\* ------------------------------------------------------ camera parameters
\* kind "ext": intrinsics and extrinsics; "intr": intrinsics only;
\* "none": Python None; "nofile": no pickle; "unset": no dictionary entry.
\* second: the alternate pose solution was requested; ver: the run whose
\* trial video the parameters were derived from (0: before the first run).
Params(k, s, v) == [kind |-> k, second |-> s, ver |-> v]
NoFile == Params("nofile", FALSE, 0)
Unset == Params("unset", FALSE, 0)
PyNone == Params("none", FALSE, 0)

\* os.path.exists(os.path.join(camDir, "cameraIntrinsicsExtrinsics.pickle"))
CacheExistsNever(c, cam) == FALSE
CacheExists(c, cam) == c[cam].kind # "nofile"

\* loadCameraParameters on the deployed intrinsics, then rotateIntrinsics
\* for the trial video of run r.
RotatedIntrinsics(r) == Params("intr", FALSE, r)

\* useSecondExtrinsicsSolution
UseSecondSolutionAll(alt, cam) == alt.given
UseSecondSolution(alt, cam) == alt.given /\ cam \in alt.cams

\* what calcExtrinsicsFromVideo returns for the trial video of run r: the
\* intrinsics with the default or the alternate pose solution
Extrinsics(alt, cam, r) == Params("ext", UseSecondSolution(alt, cam), r)

\* CamParamDict[camName] = CamParams.copy() / None
Appended(p) == IF p.kind # "none" THEN p ELSE PyNone

\* the value saveCameraParameters pickles for a camera
SavedValueLast(dict, cam) == dict[CameraOrder[Len(CameraOrder)]]
SavedValue(dict, cam) == dict[cam]

\* not all([loadedCamParams[i] for i in loadedCamParams])
MustSaveAlways(loaded) == TRUE
MustSave(loaded) == \E cam \in Cameras : loaded[cam] = "computed"

\* the except clauses of main re-raise for len(e.args) == 2 and == 1 only
Reraises(n) == n = 2 \/ n = 1

\* keypoints3D.shape[2] < 10
TooFewFramesInclusive(n) == n <= MinGoodFrames
TooFewFrames(n) == n < MinGoodFrames

\* scaleModel and calibrationOptions is not None and alternateExtrinsics is None
SelectConditionNoScale(a) == a.calibrationOptions /\ ~a.alternateExtrinsics.given
SelectCondition(a) == a.scaleModel /\ a.calibrationOptions /\ ~a.alternateExtrinsics.given

\* ------------------------------------------------------- rotation lookup
NoRotation == << >>
RotationAnglesNoFlag(mount, upsideDown) ==
  IF mount = "backWall" THEN <<<<"y", 90>>, <<"z", 180>>>>
  ELSE IF mount = "backWall_largeCB" THEN <<<<"y", -90>>>>
  ELSE IF mount = "backWall_walking" THEN <<<<"Y", -90>>, <<"Z", 180>>>>
  ELSE IF mount = "ground" THEN <<<<"x", -90>>, <<"y", 90>>>>
  ELSE IF mount = "ground_jumps" THEN <<<<"x", 90>>, <<"y", 180>>>>
  ELSE IF mount = "ground_gaits" THEN <<<<"x", 90>>, <<"y", 90>>>>
  ELSE NoRotation
RotationAngles(mount, upsideDown) ==
  IF mount = "backWall" /\ ~upsideDown THEN <<<<"y", 90>>, <<"z", 180>>>>
  ELSE IF mount = "backWall" /\ upsideDown THEN <<<<"y", -90>>>>
  ELSE IF mount = "backWall_largeCB" THEN <<<<"y", -90>>>>
  ELSE IF mount = "backWall_walking" THEN <<<<"Y", -90>>, <<"Z", 180>>>>
  ELSE IF mount = "ground" THEN <<<<"x", -90>>, <<"y", 90>>>>
  ELSE IF mount = "ground_jumps" THEN <<<<"x", 90>>, <<"y", 180>>>>
  ELSE IF mount = "ground_gaits" THEN <<<<"x", 90>>, <<"y", 90>>>>
  ELSE NoRotation
\* the placements the sessions of the model declare: a preset the
\* upside-down flag applies to, one it does not apply to, an undeclared one
SessionPlacements == {"backWall", "ground", "other"}
Presets == {"backWall", "backWall_largeCB", "backWall_walking", "ground",
            "ground_jumps", "ground_gaits"}
\* the if/elif chain reaches a branch other than the final else
PlacementAlways(mount) == TRUE
PlacementSupported(mount) == mount \in Presets

\* ------------------------------------------------------------- arguments
\* alternateExtrinsics: None, or a list of camera names
AltLists == {{}, {CameraOrder[1]}}
AltValues == {[given |-> FALSE, cams |-> {}]} \cup
             {[given |-> TRUE, cams |-> s] : s \in AltLists}
ArgValues == [extrinsicsTrial : BOOLEAN, alternateExtrinsics : AltValues,
              calibrationOptions : BOOLEAN, scaleModel : BOOLEAN,
              offset : BOOLEAN]
NoArgs == [extrinsicsTrial |-> FALSE,
           alternateExtrinsics |-> [given |-> FALSE, cams |-> {}],
           calibrationOptions |-> FALSE, scaleModel |-> FALSE,
           offset |-> FALSE]

\* thresholdPosition is a float: milli is its value in thousandths and
\* residual the rounding error the repeated addition of 0.001 has
\* accumulated, in units of 1e-18 (0.003 + 6 * 0.001 is
\* 0.009000000000000001, ..., 0.003 + 12 * 0.001 is 0.015000000000000006)
Residual(milli) ==
  IF milli <= 8 THEN 0
  ELSE IF milli <= 13 THEN milli - 8
  ELSE IF milli = 14 THEN 5
  ELSE 6
FirstThreshold == [milli |-> ThresholdStart, residual |-> 0]
\* thresholdPosition += increment
NextThreshold(t) ==
  [milli |-> t.milli + ThresholdIncrement,
   residual |-> Residual(t.milli + ThresholdIncrement)]
\* thresholdPosition <= maxThreshold
WithinMaxThresholdExact(t) == t.milli <= ThresholdMax
WithinMaxThreshold(t) ==
  t.milli < ThresholdMax \/ (t.milli = ThresholdMax /\ t.residual <= 0)

\* local variables of main bound by the later stages (TRUE: bound); frames
\* is keypoints3D.shape[2], -1 while keypoints3D is unbound.  The record
\* holds a value as long as the code can still read it: rotationAngles up
\* to writeTRCfrom3DKeypoints, thresholdPosition within the loop of the
\* scaling time range.
FreshLocals == [rotationAngles |-> NoRotation, rotationBound |-> FALSE,
                keypoints2D |-> FALSE, keypoints3D |-> FALSE, frames |-> -1,
                vertical_offset |-> FALSE, timeRange4Scaling |-> FALSE,
                pathScaledModel |-> FALSE, pathOutputIK |-> FALSE,
                thresholdPosition |-> FirstThreshold]

NoErr == [args |-> -1, kind |-> "none"]
Error(n, k) == [args |-> n, kind |-> k]

\* the session directory before the first run of main, for a session whose
\* metadata declares one of the given placements
InitSession(placements) ==
  /\ cache \in [Cameras -> {NoFile, Params("ext", FALSE, 0)}]
  /\ scaledModelFile = FALSE
  /\ placement \in placements
  /\ run = 0
  /\ pc = "idle"
  /\ args = NoArgs
  /\ todo = {}
  /\ loadedCamParams = [cam \in Cameras |-> "unset"]
  /\ CamParamDict = [cam \in Cameras |-> Unset]
  /\ locals = FreshLocals
  /\ trace = << >>
  /\ err = NoErr
  /\ cacheAtStart = cache
  /\ written = {}
  /\ computed = {}
  /\ failed = {}
  /\ calibDone = FALSE
  /\ prevFailed = FALSE

\* the worker before its first dequeue request, in a fresh container
NoTrial == [id |-> 0, session |-> "none", videos |-> "none"]
InitWorker ==
  /\ wpc = "dequeue"
  /\ trial = NoTrial
  /\ outcome = "none"
  /\ reported = << >>
  /\ data = {}
  /\ polls = 0

\* the mmpose container when loop_mmpose.py is started: a video or a
\* result of an earlier run of the script may be present
NoVideo == 0
ResultFile(name, r) == [name |-> name, round |-> r]
InitMmpose(staleVideos, staleResults) ==
  /\ mpc = "start"
  /\ produced \in staleVideos
  /\ videoFile = produced
  /\ outputDir \in staleResults
  /\ round = 0
  /\ begun = << >>

Init == InitSession(SessionPlacements) /\ InitWorker /\ InitMmpose({0}, {{}})

\* ------------------------------------------------------------ control flow
\* main terminates with an exception carrying n arguments
Raise(n, kind) == pc' = "raised" /\ err' = Error(n, kind)

\* first statement after "Camera calibration": pose detection is skipped in
\* an extrinsics trial, and so are synchronization, triangulation,
\* augmentation and the OpenSim pipeline
AfterCalibrationAlways(a) == "rotation"
AfterCalibration(a) ==
  IF ~a.extrinsicsTrial THEN "rotation"
  ELSE IF SelectCondition(a) THEN "select" ELSE "finish"
AfterSynchronization(a) == IF SelectCondition(a) THEN "select" ELSE "triangulation"
AfterSelectionToSync(a) == "sync"
AfterSelection(a) == IF a.extrinsicsTrial THEN "finish" ELSE "triangulation"
AfterAugmentation(a) == IF a.scaleModel THEN "timerange" ELSE "ik"

\* ----------------------------------------------------------------- main()
\* Entry of main up to the calibration loop: the local variables are fresh,
\* the settings yaml is dumped unless this is an extrinsics trial.
StartRun(a) ==
  /\ pc \in {"idle", "returned", "raised"}
  /\ run < MaxRuns
  /\ run' = run + 1
  /\ args' = a
  /\ pc' = "calib"
  /\ todo' = Cameras
  /\ loadedCamParams' = [cam \in Cameras |-> "unset"]
  /\ CamParamDict' = [cam \in Cameras |-> Unset]
  /\ locals' = FreshLocals
  /\ trace' = IF a.extrinsicsTrial THEN <<"calibration">>
                                   ELSE <<"settings", "calibration">>
  /\ err' = NoErr
  /\ cacheAtStart' = cache
  /\ written' = {}
  /\ computed' = {}
  /\ failed' = {}
  /\ calibDone' = FALSE
  /\ prevFailed' = (pc = "raised" /\ calibDone)
  /\ UNCHANGED <<cache, scaledModelFile, placement>>
  /\ UNCHANGED workerVars
  /\ UNCHANGED mmposeVars

\* the camera the loop over the camera dictionary visits next
NextCamera(remaining) ==
  LET first == CHOOSE i \in 1..Len(CameraOrder) :
                 /\ CameraOrder[i] \in remaining
                 /\ \A j \in 1..(i - 1) : CameraOrder[j] \notin remaining
  IN  CameraOrder[first]

\* end of one iteration of "for camName in cameraDirectories"; after the
\* last camera the parameters are saved if not all of them were loaded
LoopStep(cam, loaded) ==
  /\ loadedCamParams' = loaded
  /\ IF todo \ {cam} # {}
       THEN /\ todo' = todo \ {cam}
            /\ pc' = "calib"
            /\ calibDone' = FALSE
       ELSE IF MustSave(loaded)
         THEN /\ todo' = Cameras
              /\ pc' = "save"
              /\ calibDone' = FALSE
         ELSE /\ todo' = {}
              /\ pc' = AfterCalibration(args)
              /\ calibDone' = TRUE

\* the cache entry exists: loadCameraParameters
CalibLoadUnlessAlternate(cam) ==
  /\ pc = "calib" /\ todo # {} /\ cam = NextCamera(todo)
  /\ CacheExists(cache, cam)
  /\ IF UseSecondSolution(args.alternateExtrinsics, cam)
       THEN /\ CamParamDict' = [CamParamDict EXCEPT ![cam] =
                 Extrinsics(args.alternateExtrinsics, cam, run)]
            /\ LoopStep(cam, [loadedCamParams EXCEPT ![cam] = "computed"])
       ELSE /\ CamParamDict' = [CamParamDict EXCEPT ![cam] = Appended(cache[cam])]
            /\ LoopStep(cam, [loadedCamParams EXCEPT ![cam] = "loaded"])
  /\ UNCHANGED <<cache, scaledModelFile, placement, run, args, locals, trace, err,
                 cacheAtStart, written, computed, failed, prevFailed>>
  /\ UNCHANGED workerVars
  /\ UNCHANGED mmposeVars
CalibLoad(cam) ==
  /\ pc = "calib" /\ todo # {} /\ cam = NextCamera(todo)
  /\ CacheExists(cache, cam)
  /\ CamParamDict' = [CamParamDict EXCEPT ![cam] = Appended(cache[cam])]
  /\ LoopStep(cam, [loadedCamParams EXCEPT ![cam] = "loaded"])
  /\ UNCHANGED <<cache, scaledModelFile, placement, run, args, locals, trace, err,
                 cacheAtStart, written, computed, failed, prevFailed>>
  /\ UNCHANGED workerVars
  /\ UNCHANGED mmposeVars

\* no cache entry and no intrinsics for the camera model
CalibNoIntrinsicsLate(cam) ==
  /\ pc = "calib" /\ todo # {} /\ cam = NextCamera(todo)
  /\ ~CacheExists(cache, cam)
  /\ Raise(2, "intrinsics")
  /\ failed' = failed \cup {"calibration"}
  /\ computed' = computed \cup {cam}
  /\ UNCHANGED <<cache, scaledModelFile, placement, run, args, todo, loadedCamParams,
                 CamParamDict, locals, trace, cacheAtStart, written,
                 calibDone, prevFailed>>
  /\ UNCHANGED workerVars
  /\ UNCHANGED mmposeVars
CalibNoIntrinsics(cam) ==
  /\ pc = "calib" /\ todo # {} /\ cam = NextCamera(todo)
  /\ ~CacheExists(cache, cam)
  /\ Raise(2, "intrinsics")
  /\ failed' = failed \cup {"calibration"}
  /\ UNCHANGED <<cache, scaledModelFile, placement, run, args, todo, loadedCamParams,
                 CamParamDict, locals, trace, cacheAtStart, written,
                 computed, calibDone, prevFailed>>
  /\ UNCHANGED workerVars
  /\ UNCHANGED mmposeVars

\* no cache entry: calcExtrinsicsFromVideo returns the parameters p
CalibReturn(cam, p) ==
  /\ pc = "calib" /\ todo # {} /\ cam = NextCamera(todo)
  /\ ~CacheExists(cache, cam)
  /\ computed' = computed \cup {cam}
  /\ CamParamDict' = [CamParamDict EXCEPT ![cam] = Appended(p)]
  /\ LoopStep(cam, [loadedCamParams EXCEPT ![cam] = "computed"])
  /\ UNCHANGED <<cache, scaledModelFile, placement, run, args, locals, trace, err,
                 cacheAtStart, written, failed, prevFailed>>
  /\ UNCHANGED workerVars
  /\ UNCHANGED mmposeVars

\* no cache entry: calcExtrinsicsFromVideo raises with n arguments; with
\* neither one nor two arguments the except clause falls through and
\* CamParams keeps the value rotateIntrinsics returned
CalibRaise(cam, n) ==
  /\ pc = "calib" /\ todo # {} /\ cam = NextCamera(todo)
  /\ ~CacheExists(cache, cam)
  /\ computed' = computed \cup {cam}
  /\ failed' = failed \cup {"calibration"}
  /\ IF Reraises(n)
       THEN /\ Raise(2, IF n = 2 THEN "specific" ELSE "calibration")
            /\ UNCHANGED <<todo, loadedCamParams, CamParamDict, calibDone>>
       ELSE /\ CamParamDict' =
                 [CamParamDict EXCEPT ![cam] = Appended(RotatedIntrinsics(run))]
            /\ LoopStep(cam, [loadedCamParams EXCEPT ![cam] = "computed"])
            /\ err' = err
  /\ UNCHANGED <<cache, scaledModelFile, placement, run, args, locals, trace,
                 cacheAtStart, written, prevFailed>>
  /\ UNCHANGED workerVars
  /\ UNCHANGED mmposeVars

\* "Save parameters if not existing yet": one saveCameraParameters call
SaveCamera(cam) ==
  /\ pc = "save" /\ todo # {} /\ cam = NextCamera(todo)
  /\ cache' = [cache EXCEPT ![cam] = SavedValue(CamParamDict, cam)]
  /\ written' = written \cup {cam}
  /\ todo' = todo \ {cam}
  /\ trace' = IF todo = Cameras THEN Append(trace, "cachewrite") ELSE trace
  /\ IF todo' = {}
       THEN pc' = AfterCalibration(args) /\ calibDone' = TRUE
       ELSE pc' = "save" /\ calibDone' = FALSE
  /\ UNCHANGED <<scaledModelFile, placement, run, args, loadedCamParams, CamParamDict,
                 locals, err, cacheAtStart, computed, failed, prevFailed>>
  /\ UNCHANGED workerVars
  /\ UNCHANGED mmposeVars

\* the parameters autoSelectExtrinsicSolution returns: for every camera one
\* of the two pose solutions of the calibration options
SelectorOutput(choice, r) == [cam \in Cameras |-> Params("ext", choice[cam], r)]

\* isCheckerboardUpsideDown and the lookup of the rotation angles
Rotation(upsideDown) ==
  /\ pc = "rotation"
  /\ IF PlacementSupported(placement)
       THEN /\ locals' = [locals EXCEPT
                 !.rotationAngles = RotationAngles(placement, upsideDown),
                 !.rotationBound = TRUE]
            /\ trace' = Append(trace, "rotation")
            /\ pc' = "pose"
            /\ err' = err
       ELSE /\ Raise(1, "placement")
            /\ UNCHANGED <<locals, trace>>
  /\ UNCHANGED <<cache, scaledModelFile, placement, run, args, todo, loadedCamParams,
                 CamParamDict, cacheAtStart, written, computed, failed,
                 calibDone, prevFailed>>
  /\ UNCHANGED workerVars
  /\ UNCHANGED mmposeVars

\* a call wrapped in try/except returned normally
StageReturn(stage, next, newLocals) ==
  /\ trace' = Append(trace, stage)
  /\ locals' = newLocals
  /\ pc' = next
  /\ UNCHANGED <<err, failed>>

\* a call wrapped in try/except raised with n arguments: re-raised with a
\* user and a developer message, or not raised at all
StageRaise(stage, n, next) ==
  /\ trace' = Append(trace, stage)
  /\ failed' = failed \cup {stage}
  /\ locals' = locals
  /\ IF Reraises(n)
       THEN Raise(2, IF n = 2 THEN "specific" ELSE stage)
       ELSE IF next = "unbound" THEN Raise(1, "UnboundLocalError")
       ELSE pc' = next /\ err' = err

\* runPoseDetector
PoseReturn ==
  /\ pc = "pose"
  /\ StageReturn("pose", "sync", locals)
  /\ UNCHANGED <<cache, scaledModelFile, placement, run, args, todo, loadedCamParams,
                 CamParamDict, cacheAtStart, written, computed, calibDone,
                 prevFailed>>
  /\ UNCHANGED workerVars
  /\ UNCHANGED mmposeVars
PoseRaise(n) ==
  /\ pc = "pose"
  /\ StageRaise("pose", n, "sync")
  /\ UNCHANGED <<cache, scaledModelFile, placement, run, args, todo, loadedCamParams,
                 CamParamDict, cacheAtStart, written, computed, calibDone,
                 prevFailed>>
  /\ UNCHANGED workerVars
  /\ UNCHANGED mmposeVars

\* synchronizeVideos binds keypoints2D, confidence, frameRate, cameras2Use
SyncReturn ==
  /\ pc = "sync"
  /\ StageReturn("sync", AfterSynchronization(args),
                 [locals EXCEPT !.keypoints2D = TRUE])
  /\ UNCHANGED <<cache, scaledModelFile, placement, run, args, todo, loadedCamParams,
                 CamParamDict, cacheAtStart, written, computed, calibDone,
                 prevFailed>>
  /\ UNCHANGED workerVars
  /\ UNCHANGED mmposeVars
SyncRaise(n) ==
  /\ pc = "sync"
  /\ StageRaise("sync", n, AfterSynchronization(args))
  /\ UNCHANGED <<cache, scaledModelFile, placement, run, args, todo, loadedCamParams,
                 CamParamDict, cacheAtStart, written, computed, calibDone,
                 prevFailed>>
  /\ UNCHANGED workerVars
  /\ UNCHANGED mmposeVars

\* autoSelectExtrinsicSolution(sessionDir, keypoints2D, confidence, ...):
\* evaluating an unbound keypoints2D raises NameError outside any try
Select(choice) ==
  /\ pc = "select"
  /\ IF locals.keypoints2D
       THEN /\ CamParamDict' = SelectorOutput(choice, run)
            /\ trace' = Append(trace, "select")
            /\ pc' = AfterSelection(args)
            /\ err' = err
       ELSE /\ Raise(1, "UnboundLocalError")
            /\ UNCHANGED <<CamParamDict, trace>>
  /\ UNCHANGED <<cache, scaledModelFile, placement, run, args, todo, loadedCamParams,
                 locals, cacheAtStart, written, computed, failed, calibDone,
                 prevFailed>>
  /\ UNCHANGED workerVars
  /\ UNCHANGED mmposeVars

\* triangulateMultiviewVideo; its arguments are evaluated inside the try,
\* so an unbound keypoints2D is re-raised as a triangulation failure
TriangulateUnbound ==
  /\ pc = "triangulation"
  /\ ~locals.keypoints2D
  /\ Raise(2, "triangulation")
  /\ UNCHANGED <<cache, scaledModelFile, placement, run, args, todo, loadedCamParams,
                 CamParamDict, locals, trace, cacheAtStart, written, computed,
                 failed, calibDone, prevFailed>>
  /\ UNCHANGED workerVars
  /\ UNCHANGED mmposeVars
TriangulateReturn(n) ==
  /\ pc = "triangulation"
  /\ locals.keypoints2D
  /\ StageReturn("triangulation", "frames",
                 [locals EXCEPT !.keypoints3D = TRUE, !.frames = n])
  /\ UNCHANGED <<cache, scaledModelFile, placement, run, args, todo, loadedCamParams,
                 CamParamDict, cacheAtStart, written, computed, calibDone,
                 prevFailed>>
  /\ UNCHANGED workerVars
  /\ UNCHANGED mmposeVars
TriangulateRaise(n) ==
  /\ pc = "triangulation"
  /\ locals.keypoints2D
  /\ StageRaise("triangulation", n, "frames")
  /\ UNCHANGED <<cache, scaledModelFile, placement, run, args, todo, loadedCamParams,
                 CamParamDict, cacheAtStart, written, computed, calibDone,
                 prevFailed>>
  /\ UNCHANGED workerVars
  /\ UNCHANGED mmposeVars

\* "Throw an error if not enough data", then writeTRCfrom3DKeypoints
CheckFramesAndWrite ==
  /\ pc = "frames"
  /\ IF ~locals.keypoints3D
       THEN Raise(1, "UnboundLocalError") /\ UNCHANGED <<trace, locals>>
       ELSE IF TooFewFrames(locals.frames)
         THEN Raise(2, "frames") /\ UNCHANGED <<trace, locals>>
         ELSE /\ trace' = Append(trace, "trc")
              /\ locals' = [locals EXCEPT !.rotationAngles = NoRotation]
              /\ pc' = "augmentation"
              /\ err' = err
  /\ UNCHANGED <<cache, scaledModelFile, placement, run, args,
                 todo, loadedCamParams, CamParamDict, cacheAtStart,
                 written, computed, failed, calibDone, prevFailed>>
  /\ UNCHANGED workerVars
  /\ UNCHANGED mmposeVars

\* augmentTRC binds vertical_offset; "if offset:" then reads it
AugmentReturn ==
  /\ pc = "augmentation"
  /\ StageReturn("augmentation", AfterAugmentation(args),
                 [locals EXCEPT !.vertical_offset = TRUE])
  /\ UNCHANGED <<cache, scaledModelFile, placement, run, args, todo, loadedCamParams,
                 CamParamDict, cacheAtStart, written, computed, calibDone,
                 prevFailed>>
  /\ UNCHANGED workerVars
  /\ UNCHANGED mmposeVars
AugmentRaise(n) ==
  /\ pc = "augmentation"
  /\ StageRaise("augmentation", n,
                IF args.offset THEN "unbound" ELSE AfterAugmentation(args))
  /\ UNCHANGED <<cache, scaledModelFile, placement, run, args, todo, loadedCamParams,
                 CamParamDict, cacheAtStart, written, computed, calibDone,
                 prevFailed>>
  /\ UNCHANGED workerVars
  /\ UNCHANGED mmposeVars

\* one iteration of "while thresholdPosition <= maxThreshold and not
\* success": getScaleTimeRange returns (ok) or raises.  Nothing reads
\* thresholdPosition after the loop, so the model drops its value there.
TimeRangeAttempt(ok) ==
  /\ pc = "timerange"
  /\ WithinMaxThreshold(locals.thresholdPosition)
  /\ IF ok
       THEN /\ locals' = [locals EXCEPT !.timeRange4Scaling = TRUE,
                                        !.thresholdPosition = FirstThreshold]
            /\ pc' = "scale"
       ELSE /\ locals' = [locals EXCEPT !.thresholdPosition =
                                          NextThreshold(@)]
            /\ pc' = "timerange"
  /\ UNCHANGED <<cache, scaledModelFile, placement, run, args, todo, loadedCamParams,
                 CamParamDict, trace, err, cacheAtStart, written, computed,
                 failed, calibDone, prevFailed>>
  /\ UNCHANGED workerVars
  /\ UNCHANGED mmposeVars
\* the loop ends without success
TimeRangeExhausted ==
  /\ pc = "timerange"
  /\ ~WithinMaxThreshold(locals.thresholdPosition)
  /\ locals' = [locals EXCEPT !.thresholdPosition = FirstThreshold]
  /\ pc' = "scale"
  /\ UNCHANGED <<cache, scaledModelFile, placement, run, args, todo, loadedCamParams,
                 CamParamDict, trace, err, cacheAtStart, written,
                 computed, failed, calibDone, prevFailed>>
  /\ UNCHANGED workerVars
  /\ UNCHANGED mmposeVars

\* runScaleTool; an unbound timeRange4Scaling raises inside the try
ScaleUnbound ==
  /\ pc = "scale"
  /\ ~locals.timeRange4Scaling
  /\ Raise(2, "scaling")
  /\ UNCHANGED <<cache, scaledModelFile, placement, run, args, todo, loadedCamParams,
                 CamParamDict, locals, trace, cacheAtStart, written, computed,
                 failed, calibDone, prevFailed>>
  /\ UNCHANGED workerVars
  /\ UNCHANGED mmposeVars
\* runScaleTool writes the scaled model; popNeutralPoseImages; pathOutputIK
ScaleReturn ==
  /\ pc = "scale"
  /\ locals.timeRange4Scaling
  /\ StageReturn("scaling", "visualizer",
                 [locals EXCEPT !.pathScaledModel = TRUE,
                                !.pathOutputIK = TRUE])
  /\ scaledModelFile' = TRUE
  /\ UNCHANGED <<cache, placement, run, args, todo,
                 loadedCamParams, CamParamDict, cacheAtStart, written,
                 computed, calibDone, prevFailed>>
  /\ UNCHANGED workerVars
  /\ UNCHANGED mmposeVars
\* not re-raised: pathScaledModel[:-5] reads an unbound variable
ScaleRaise(n) ==
  /\ pc = "scale"
  /\ locals.timeRange4Scaling
  /\ StageRaise("scaling", n, "unbound")
  /\ UNCHANGED <<cache, scaledModelFile, placement, run, args, todo, loadedCamParams,
                 CamParamDict, cacheAtStart, written, computed, calibDone,
                 prevFailed>>
  /\ UNCHANGED workerVars
  /\ UNCHANGED mmposeVars

\* os.path.exists(pathScaledModel) is false
IKNoModelSkipped ==
  /\ pc = "ik"
  /\ ~scaledModelFile
  /\ pc' = "visualizer"
  /\ UNCHANGED <<cache, scaledModelFile, placement, run, args, todo, loadedCamParams,
                 CamParamDict, locals, trace, err, cacheAtStart, written, computed,
                 failed, calibDone, prevFailed>>
  /\ UNCHANGED workerVars
  /\ UNCHANGED mmposeVars
IKNoModel ==
  /\ pc = "ik"
  /\ ~scaledModelFile
  /\ Raise(1, "noscaledmodel")
  /\ UNCHANGED <<cache, scaledModelFile, placement, run, args, todo, loadedCamParams,
                 CamParamDict, locals, trace, cacheAtStart, written, computed,
                 failed, calibDone, prevFailed>>
  /\ UNCHANGED workerVars
  /\ UNCHANGED mmposeVars
\* runIKTool
IKReturn ==
  /\ pc = "ik"
  /\ scaledModelFile
  /\ StageReturn("ik", "visualizer",
                 [locals EXCEPT !.pathScaledModel = TRUE,
                                !.pathOutputIK = TRUE])
  /\ UNCHANGED <<cache, scaledModelFile, placement, run, args, todo, loadedCamParams,
                 CamParamDict, cacheAtStart, written, computed, calibDone,
                 prevFailed>>
  /\ UNCHANGED workerVars
  /\ UNCHANGED mmposeVars
IKRaise(n) ==
  /\ pc = "ik"
  /\ scaledModelFile
  /\ StageRaise("ik", n, "visualizer")
  /\ UNCHANGED <<cache, scaledModelFile, placement, run, args, todo, loadedCamParams,
                 CamParamDict, cacheAtStart, written, computed, calibDone,
                 prevFailed>>
  /\ UNCHANGED workerVars
  /\ UNCHANGED mmposeVars

\* generateVisualizerJson(pathScaledModel, pathOutputIK, ...,
\* vertical_offset=vertical_offset)
Visualizer ==
  /\ pc = "visualizer"
  /\ IF locals.pathOutputIK /\ locals.vertical_offset
       THEN /\ trace' = Append(trace, "visualizer")
            /\ pc' = "finish"
            /\ err' = err
       ELSE /\ Raise(1, "UnboundLocalError")
            /\ trace' = trace
  /\ UNCHANGED <<cache, scaledModelFile, placement, run, args, todo, loadedCamParams,
                 CamParamDict, locals, cacheAtStart, written, computed,
                 failed, calibDone, prevFailed>>
  /\ UNCHANGED workerVars
  /\ UNCHANGED mmposeVars

\* "Rewrite settings, adding offset", then main returns
Finish ==
  /\ pc = "finish"
  /\ pc' = "returned"
  /\ trace' = IF ~args.extrinsicsTrial /\ args.offset
                 THEN Append(trace, "settings") ELSE trace
  /\ UNCHANGED <<cache, scaledModelFile, placement, run, args, todo,
                 loadedCamParams, CamParamDict, locals, err,
                 cacheAtStart, written, computed, failed, calibDone,
                 prevFailed>>
  /\ UNCHANGED workerVars
  /\ UNCHANGED mmposeVars

Next ==
  \/ \E a \in ArgValues : StartRun(a)
  \/ \E cam \in Cameras : CalibLoad(cam)
  \/ \E cam \in Cameras : CalibNoIntrinsics(cam)
  \/ \E cam \in Cameras :
       CalibReturn(cam, Extrinsics(args.alternateExtrinsics, cam, run))
  \/ \E cam \in Cameras : \E n \in ExcArgs : CalibRaise(cam, n)
  \/ \E cam \in Cameras : SaveCamera(cam)
  \/ \E upsideDown \in BOOLEAN : Rotation(upsideDown)
  \/ PoseReturn
  \/ \E n \in ExcArgs : PoseRaise(n)
  \/ SyncReturn
  \/ \E n \in ExcArgs : SyncRaise(n)
  \/ \E choice \in [Cameras -> BOOLEAN] : Select(choice)
  \/ TriangulateUnbound
  \/ \E n \in FrameCounts : TriangulateReturn(n)
  \/ \E n \in ExcArgs : TriangulateRaise(n)
  \/ CheckFramesAndWrite
  \/ AugmentReturn
  \/ \E n \in ExcArgs : AugmentRaise(n)
  \/ \E ok \in BOOLEAN : TimeRangeAttempt(ok)
  \/ TimeRangeExhausted
  \/ ScaleUnbound
  \/ ScaleReturn
  \/ \E n \in ExcArgs : ScaleRaise(n)
  \/ IKNoModel
  \/ IKReturn
  \/ \E n \in ExcArgs : IKRaise(n)
  \/ Visualizer
  \/ Finish

Spec == Init /\ [][Next]_vars

\* ------------------------------------------------ the rotation lookup alone
\* Runs of main up to the lookup of the rotation angles, on sessions that
\* declare any of the presets or an undeclared placement: the calibration
\* loads or computes every camera and the run is not an extrinsics trial.
LookupPlacements == Presets \cup {"other"}
LookupArgs == {a \in ArgValues : ~a.extrinsicsTrial}
LookupInit ==
  InitSession(LookupPlacements) /\ InitWorker /\ InitMmpose({0}, {{}})
LookupNext ==
  \/ \E a \in LookupArgs : StartRun(a)
  \/ \E cam \in Cameras : CalibLoad(cam)
  \/ \E cam \in Cameras :
       CalibReturn(cam, Extrinsics(args.alternateExtrinsics, cam, run))
  \/ \E cam \in Cameras : SaveCamera(cam)
  \/ \E upsideDown \in BOOLEAN : Rotation(upsideDown)
LookupSpec == LookupInit /\ [][LookupNext]_vars

\* ------------------------------------------------------- app.py: worker
\* The polling loop of app.py.  The API and processTrial are environment:
\* a request raises or returns a response, processTrial returns or raises.
\* A PATCH that raises may or may not have reached the API first.
MaxPolls == 3
isDockerOff == FALSE
isDocker == TRUE
Sessions == {"s1", "s2"}
\* trial["videos"]: empty, with an entry whose file is None, all with files
VideoStates == {"none", "missing", "ok"}
StatusCodes == {200, 401, 404, 500, 503}
\* np.floor(r.status_code/100) == 5
ServerFault(code) == code \div 100 = 5
\* what r.json() gives: a trial, or nothing the loop can index
NoBody == [id |-> -1, session |-> "none", videos |-> "none"]
Bodies(id) == {NoBody} \cup
              [id : {id}, session : Sessions, videos : VideoStates]
\* outcomes of requests.patch: returned; raised before the API received
\* the request; raised after the API received it
PatchResults == {"ok", "lost", "late"}
Delivered(res) == res \in {"ok", "late"}
Report(status, res) ==
  reported' = IF Delivered(res) THEN Append(reported, status) ELSE reported

\* requests.get raises: sleep and continue
DequeueException ==
  /\ wpc = "dequeue" /\ polls < MaxPolls
  /\ polls' = polls + 1
  /\ UNCHANGED <<wpc, trial, outcome, reported, data>>
  /\ UNCHANGED mainVars
  /\ UNCHANGED mmposeVars

\* requests.get returns: 404 and 5xx continue; otherwise the body is read
\* as a trial, and the two checks of its videos are made
DequeueResponse(code, body) ==
  /\ wpc = "dequeue" /\ polls < MaxPolls
  /\ polls' = polls + 1
  /\ IF code = 404 \/ ServerFault(code)
       THEN UNCHANGED <<wpc, trial, outcome, reported>>
       ELSE IF body = NoBody
         THEN wpc' = "crashed" /\ UNCHANGED <<trial, outcome, reported>>
         ELSE /\ trial' = body
              /\ outcome' = "none"
              /\ reported' = << >>
              /\ wpc' = IF body.videos = "none" THEN "novideos"
                        ELSE IF body.videos = "missing" THEN "nullvideo"
                        ELSE "process"
  /\ UNCHANGED data
  /\ UNCHANGED mainVars
  /\ UNCHANGED mmposeVars

\* the PATCH of status "error" for a trial without usable videos, outside
\* any try: continue, or the exception ends the worker
PatchNoVideos(res) ==
  /\ wpc \in {"novideos", "nullvideo"}
  /\ Report("error", res)
  /\ wpc' = IF res = "ok" THEN "dequeue" ELSE "crashed"
  /\ UNCHANGED <<trial, outcome, data, polls>>
  /\ UNCHANGED mainVars
  /\ UNCHANGED mmposeVars

\* processTrial downloads the session under Data and returns or raises
ProcessTrial(returns) ==
  /\ wpc = "process"
  /\ data' = data \cup {trial.session}
  /\ outcome' = IF returns THEN "returned" ELSE "raised"
  /\ wpc' = IF returns THEN "reportDone" ELSE "reportError"
  /\ UNCHANGED <<trial, reported, polls>>
  /\ UNCHANGED mainVars
  /\ UNCHANGED mmposeVars

\* the PATCH of status "done", inside the try: an exception of the request
\* is caught by the bare except like one of processTrial
PatchDone(res) ==
  /\ wpc = "reportDone"
  /\ Report("done", res)
  /\ wpc' = IF res = "ok" THEN "cleanup" ELSE "reportError"
  /\ UNCHANGED <<trial, outcome, data, polls>>
  /\ UNCHANGED mainVars
  /\ UNCHANGED mmposeVars

\* the PATCH of status "error" in the except block: its own exception is
\* not caught and ends the worker
PatchError(res) ==
  /\ wpc = "reportError"
  /\ Report("error", res)
  /\ wpc' = IF res = "ok" THEN "cleanup" ELSE "crashed"
  /\ UNCHANGED <<trial, outcome, data, polls>>
  /\ UNCHANGED mainVars
  /\ UNCHANGED mmposeVars

\* "Clean data directory": every folder under Data is removed
Cleanup ==
  /\ wpc = "cleanup"
  /\ data' = IF isDocker THEN {} ELSE data
  /\ wpc' = "dequeue"
  /\ UNCHANGED <<trial, outcome, reported, polls>>
  /\ UNCHANGED mainVars
  /\ UNCHANGED mmposeVars

WorkerInit ==
  /\ InitSession({"backWall"})
  /\ cache = [cam \in Cameras |-> NoFile]
  /\ InitWorker
  /\ InitMmpose({0}, {{}})
WorkerNext ==
  \/ DequeueException
  \/ \E code \in StatusCodes : \E body \in Bodies(polls + 1) :
       DequeueResponse(code, body)
  \/ \E res \in PatchResults : PatchNoVideos(res)
  \/ \E returns \in BOOLEAN : ProcessTrial(returns)
  \/ \E res \in PatchResults : PatchDone(res)
  \/ \E res \in PatchResults : PatchError(res)
  \/ Cleanup
WorkerSpec == WorkerInit /\ [][WorkerNext]_vars

\* ----------------------------------------- mmpose/loop_mmpose.py: loop
\* The polling loop of loop_mmpose.py.  The producer of the videos and the
\* two inference functions are environment: the producer may write a video
\* at video_path at any moment, an inference returns or raises.
MaxVideos == 4
\* a video is copied to video_path (replacing the file that is there)
ProducerWrites ==
  /\ produced < MaxVideos
  /\ produced' = produced + 1
  /\ videoFile' = produced + 1
  /\ UNCHANGED <<mpc, outputDir, round, begun>>
  /\ UNCHANGED <<mainVars, workerVars>>

\* before the loop: a video left at video_path is removed
Startup ==
  /\ mpc = "start"
  /\ videoFile' = NoVideo
  /\ mpc' = "wait"
  /\ UNCHANGED <<outputDir, round, begun, produced>>
  /\ UNCHANGED <<mainVars, workerVars>>

\* no file at video_path: sleep and continue
WaitIdle ==
  /\ mpc = "wait" /\ videoFile = NoVideo
  /\ UNCHANGED mmposeVars
  /\ UNCHANGED <<mainVars, workerVars>>

\* a file at video_path: output_dir is removed and created again
BeginRound ==
  /\ mpc = "wait" /\ videoFile # NoVideo
  /\ outputDir' = {}
  /\ round' = round + 1
  /\ begun' = Append(begun, videoFile)
  /\ mpc' = "detect"
  /\ UNCHANGED <<videoFile, produced>>
  /\ UNCHANGED <<mainVars, workerVars>>

\* detection_inference writes box.pkl and returns, or raises, having
\* written the file or not
Detection(returns, wrote) ==
  /\ mpc = "detect"
  /\ returns => wrote
  /\ outputDir' = IF wrote THEN outputDir \cup {ResultFile("box.pkl", round)}
                           ELSE outputDir
  /\ mpc' = IF returns THEN "pose" ELSE "except"
  /\ UNCHANGED <<videoFile, round, begun, produced>>
  /\ UNCHANGED <<mainVars, workerVars>>

\* pose_inference writes human.pkl and returns, then the video and box.pkl
\* are removed if they exist; or pose_inference raises
PoseInference(returns) ==
  /\ mpc = "pose"
  /\ IF returns
       THEN /\ outputDir' =
                 {f \in outputDir \cup {ResultFile("human.pkl", round)} :
                    f.name # "box.pkl"}
            /\ videoFile' = NoVideo
            /\ mpc' = "wait"
       ELSE /\ mpc' = "except"
            /\ UNCHANGED <<videoFile, outputDir>>
  /\ UNCHANGED <<round, begun, produced>>
  /\ UNCHANGED <<mainVars, workerVars>>

\* the except block: os.remove(video_path), which raises out of the loop
\* when there is no such file
ExceptKeepsVideo ==
  /\ mpc = "except"
  /\ mpc' = "wait"
  /\ UNCHANGED <<videoFile, outputDir, round, begun, produced>>
  /\ UNCHANGED <<mainVars, workerVars>>
Except ==
  /\ mpc = "except"
  /\ IF videoFile # NoVideo
       THEN videoFile' = NoVideo /\ mpc' = "wait"
       ELSE videoFile' = videoFile /\ mpc' = "crashed"
  /\ UNCHANGED <<outputDir, round, begun, produced>>
  /\ UNCHANGED <<mainVars, workerVars>>

MmposeInit ==
  /\ InitSession({"backWall"})
  /\ cache = [cam \in Cameras |-> NoFile]
  /\ InitWorker
  /\ InitMmpose({0, 1}, {{}, {ResultFile("human.pkl", 0)}})
MmposeNext ==
  \/ ProducerWrites
  \/ Startup
  \/ WaitIdle
  \/ BeginRound
  \/ \E returns, wrote \in BOOLEAN : Detection(returns, wrote)
  \/ \E returns \in BOOLEAN : PoseInference(returns)
  \/ Except
MmposeSpec == MmposeInit /\ [][MmposeNext]_vars

\* ================================================================= claims
InRun == pc # "idle"
HadCache(cam) == cacheAtStart[cam].kind # "nofile"
Stages(t) == {t[i] : i \in 1..Len(t)}
\* the stages of t that rank orders appear in t in the order of their ranks
InOrder(t, rank) ==
  \A i, j \in 1..Len(t) :
    (i < j /\ t[i] \in DOMAIN rank /\ t[j] \in DOMAIN rank)
      => rank[t[i]] <= rank[t[j]]
LastStage == IF trace = << >> THEN "none" ELSE trace[Len(trace)]

\* C1: a camera whose cache entry exists when main starts is loaded, never
\* computed, and its cache entry keeps the content it had at the start, in
\* every run and also when other cameras are computed and saved in the run.
C1_CacheIdempotence ==
  \A cam \in Cameras :
    (InRun /\ HadCache(cam)) =>
      /\ cam \notin computed
      /\ loadedCamParams[cam] \in {"unset", "loaded"}
      /\ cache[cam] = cacheAtStart[cam]
      /\ (loadedCamParams[cam] = "loaded" /\ "select" \notin Stages(trace))
           => CamParamDict[cam] = cacheAtStart[cam]
\* a repeated run in which a cached camera was saved again next to a
\* camera computed in the same run
C1_Witness ==
  /\ run = 2 /\ calibDone
  /\ \E cam, other \in Cameras :
       /\ HadCache(cam) /\ cam \in written
       /\ other \in computed /\ other \in written

\* C2: no cache entry is written before every camera was loaded or
\* successfully computed, and a run in which the calibration of a camera
\* failed creates or modifies no cache entry.
C2_JoinBarrier ==
  /\ written # {} =>
       \A cam \in Cameras :
         \/ loadedCamParams[cam] = "loaded"
         \/ loadedCamParams[cam] = "computed" /\ CamParamDict[cam].kind = "ext"
  /\ "calibration" \in failed => (written = {} /\ cache = cacheAtStart)

\* C3: whenever a stage after calibration starts, every camera has
\* parameters that include extrinsics, and a run in which the extrinsics
\* computation of a camera failed has aborted.
C3_AllCamerasMandatory ==
  /\ pc \in {"save", "rotation", "pose", "sync", "select", "triangulation"}
       => \A cam \in Cameras : CamParamDict[cam].kind = "ext"
  /\ "calibration" \in failed => pc = "raised"

\* C4: once the call of a stage has raised, whatever the number of
\* arguments of the exception, main has terminated with an exception and
\* the failed stage is the last thing the run did.
C4_FatalErrorsAbort ==
  failed # {} => (pc = "raised" /\ LastStage \in failed)

\* C5: every exception main terminates with carries exactly two parts.
C5_TwoPartPayload ==
  pc = "raised" => err.args = 2

\* C6: once the frame check has been made on the result of the
\* triangulation, fewer than 10 frames mean main has failed with the
\* insufficient-frames error and wrote no trajectory file, and 10 or more
\* frames mean the trajectory file was written.
C6_InsufficientFrames ==
  (locals.keypoints3D /\ pc # "frames") =>
    /\ locals.frames < 10 =>
         (pc = "raised" /\ err = Error(2, "frames")
            /\ "trc" \notin Stages(trace))
    /\ locals.frames >= 10 => "trc" \in Stages(trace)
\* both sides of the boundary: a run failed on 9 frames ...
C6_Witness ==
  /\ locals.frames = 9 /\ pc = "raised" /\ err.kind = "frames"
\* ... and a run wrote the trajectory file from 10 frames
C6_WitnessTen ==
  /\ locals.frames = 10 /\ "trc" \in Stages(trace)

\* C7: in a run that is not an extrinsics trial of a session whose
\* placement is not a preset, no rotation is ever bound, pose detection,
\* synchronization, triangulation and trajectory writing never happen, and
\* the run ends at the lookup with an exception.
C7_UnknownPlacementFatal ==
  (InRun /\ ~args.extrinsicsTrial /\ placement \notin Presets) =>
    /\ ~locals.rotationBound /\ locals.rotationAngles = NoRotation
    /\ Stages(trace) \cap {"rotation", "pose", "sync", "select",
                           "triangulation", "trc"} = {}
    /\ pc \in {"calib", "save", "rotation", "raised"}
    /\ (calibDone /\ pc # "rotation") => (pc = "raised" /\ err.kind = "placement")
C7_Witness ==
  /\ ~args.extrinsicsTrial /\ placement \notin Presets /\ calibDone
  /\ pc = "raised" /\ err.kind = "placement"

\* C8 as claimed: the stages run in the order calibration, selector,
\* Synchronizer, Triangulator, trajectory writing.
ClaimedRank == [calibration |-> 1, cachewrite |-> 1, select |-> 2, sync |-> 3,
                triangulation |-> 4, trc |-> 5]
C8_ClaimedStageOrder == InOrder(trace, ClaimedRank)
\* C8: the stages run in the order calibration of all cameras, pose
\* detection, Synchronizer, selector (when invoked), Triangulator,
\* trajectory writing; no stage runs twice, the selector runs only on the
\* output of the Synchronizer, and a stage runs only after the stages
\* before it.
StageRank == [calibration |-> 1, cachewrite |-> 2, pose |-> 3, sync |-> 4,
              select |-> 5, triangulation |-> 6, trc |-> 7]
C8_StageOrder ==
  /\ InOrder(trace, StageRank)
  /\ \A i, j \in 1..Len(trace) :
       (i # j /\ trace[i] \in DOMAIN StageRank) => trace[i] # trace[j]
  /\ Stages(trace) \cap {"pose", "sync", "select", "triangulation", "trc"} # {}
       => (calibDone /\ todo = {})
  /\ "sync" \in Stages(trace) => "pose" \in Stages(trace)
  /\ "select" \in Stages(trace) => ("sync" \in Stages(trace) /\ locals.keypoints2D)
  /\ "triangulation" \in Stages(trace) => "sync" \in Stages(trace)
  /\ "trc" \in Stages(trace) => "triangulation" \in Stages(trace)
\* a run in which the selector ran and the trajectory was written
C8_Witness ==
  /\ "select" \in Stages(trace) /\ "trc" \in Stages(trace)
  /\ "cachewrite" \in Stages(trace)

\* the run has passed line 335 of main, where the selector is invoked
PastSelection ==
  \/ pc \in {"triangulation", "frames", "augmentation", "timerange", "scale",
             "ik", "visualizer", "finish", "returned"}
  \/ pc = "raised" /\ Stages(trace) \cap {"select", "triangulation"} # {}
\* C9 as claimed: the selector is invoked if and only if calibration
\* options are declared and no override is supplied.
C9_ClaimedSelectorCondition ==
  /\ "select" \in Stages(trace) =>
       (args.calibrationOptions /\ ~args.alternateExtrinsics.given)
  /\ (PastSelection /\ args.calibrationOptions
        /\ ~args.alternateExtrinsics.given) => "select" \in Stages(trace)
\* C9: the selector is invoked only if scaleModel is set, calibration
\* options are declared and no override is supplied, and every run that
\* gets past that point under these three conditions has invoked it.
C9_SelectorCondition ==
  /\ "select" \in Stages(trace) =>
       (args.scaleModel /\ args.calibrationOptions
          /\ ~args.alternateExtrinsics.given)
  /\ (PastSelection /\ args.scaleModel /\ args.calibrationOptions
        /\ ~args.alternateExtrinsics.given) => "select" \in Stages(trace)
C9_Witness ==
  /\ "select" \in Stages(trace) /\ pc = "triangulation"
  /\ args.scaleModel /\ args.calibrationOptions
  /\ ~args.alternateExtrinsics.given

\* C10: in the run after a run that raised after its calibration stage,
\* every camera is loaded from the cache, none is computed, the cache is
\* left as it was, and every later stage starts from fresh local variables
\* and runs only after the stages before it have run again in this run.
C10_RetryReusesCache ==
  (InRun /\ prevFailed) =>
    /\ computed = {} /\ written = {} /\ cache = cacheAtStart
    /\ \A cam \in Cameras :
         /\ HadCache(cam)
         /\ loadedCamParams[cam] \in {"unset", "loaded"}
         /\ loadedCamParams[cam] = "loaded" /\ "select" \notin Stages(trace)
              => CamParamDict[cam] = cacheAtStart[cam]
    /\ pc \in {"calib", "rotation"} => locals = FreshLocals
    /\ pc = "sync" => "pose" \in Stages(trace)
    /\ locals.keypoints2D => "sync" \in Stages(trace)
    /\ locals.keypoints3D => "triangulation" \in Stages(trace)
    /\ "trc" \in Stages(trace) => "triangulation" \in Stages(trace)
    /\ locals.vertical_offset => "augmentation" \in Stages(trace)
\* the retry got as far as writing the trajectory file
C10_Witness ==
  /\ prevFailed /\ "trc" \in Stages(trace)
  /\ \A cam \in Cameras : loadedCamParams[cam] = "loaded"

\* C11: a camera whose extrinsics were computed in the run holds the
\* alternate pose solution if and only if alternateExtrinsics was supplied
\* and names the camera, and the default solution otherwise; the cache
\* entry written for it holds the same solution.
C11_AlternateSolution ==
  \A cam \in Cameras :
    (InRun /\ loadedCamParams[cam] = "computed"
       /\ CamParamDict[cam].kind = "ext" /\ "select" \notin Stages(trace)) =>
      /\ CamParamDict[cam].second =
           (args.alternateExtrinsics.given
              /\ cam \in args.alternateExtrinsics.cams)
      /\ cam \in written => cache[cam].second = CamParamDict[cam].second
\* both cameras were computed and saved in a run whose alternateExtrinsics
\* names one of them: that one holds the alternate solution, the other the
\* default one
C11_Witness ==
  /\ calibDone /\ written = Cameras /\ args.alternateExtrinsics.given
  /\ \E cam, other \in Cameras :
       /\ cam \in args.alternateExtrinsics.cams
       /\ loadedCamParams[cam] = "computed" /\ cache[cam].second
       /\ other \notin args.alternateExtrinsics.cams
       /\ loadedCamParams[other] = "computed"
       /\ cache[other].kind = "ext" /\ ~cache[other].second

\* C12: when main has stopped because a camera without cache entry has no
\* intrinsics, the exception is the two-part unsupported-camera error and
\* not the calibration-failure error, the pose solve did not run for that
\* camera, and the run wrote no cache entry: the cache is as it was when
\* the run started.
C12_UnsupportedCamera ==
  (pc = "raised" /\ err.kind = "intrinsics") =>
    /\ err.args = 2 /\ err # Error(2, "calibration")
    /\ todo # {}
    /\ ~HadCache(NextCamera(todo))
    /\ NextCamera(todo) \notin computed
    /\ loadedCamParams[NextCamera(todo)] = "unset"
    /\ written = {} /\ cache = cacheAtStart
    /\ Stages(trace) \subseteq {"settings", "calibration"}
\* the run stopped at the second camera after the first one was computed
C12_Witness ==
  /\ pc = "raised" /\ err.kind = "intrinsics"
  /\ computed # {} /\ written = {}

\* C15: in a run without scaleModel, inverse kinematics has run only if the
\* scaled model file of the session exists; a run that got past the marker
\* augmentation while the file does not exist has stopped with the
\* no-scaled-model error (or with the error of the augmentation), without
\* running inverse kinematics and without a visualizer JSON.
C15_MissingScaledModel ==
  (InRun /\ ~args.scaleModel) =>
    /\ "ik" \in Stages(trace) => scaledModelFile
    /\ err.kind = "noscaledmodel" =>
         (pc = "raised" /\ ~scaledModelFile
            /\ "augmentation" \in Stages(trace))
    /\ ("augmentation" \in Stages(trace) /\ ~scaledModelFile /\ pc # "ik") =>
         /\ pc = "raised"
         /\ err.kind = "noscaledmodel" \/ "augmentation" \in failed
         /\ Stages(trace) \cap {"ik", "visualizer"} = {}
\* the run stopped at the check of the scaled model after a successful
\* marker augmentation
C15_Witness ==
  /\ ~args.scaleModel /\ pc = "raised" /\ err.kind = "noscaledmodel"
  /\ "augmentation" \in Stages(trace) /\ failed = {}
\* inverse kinematics ran on the model an earlier run has scaled
C15_WitnessIK ==
  /\ ~args.scaleModel /\ "ik" \in Stages(trace) /\ scaledModelFile
  /\ "visualizer" \in Stages(trace)

\* C16: in a run with extrinsicsTrial set, whatever the other arguments,
\* only the calibration stage (with its cache write) executes: no pose
\* detection, synchronization, selection, triangulation, augmentation or
\* OpenSim stage runs, none of their local variables is bound, and neither
\* the settings file nor the trajectory file is written.
C16_ExtrinsicsOnly ==
  (InRun /\ args.extrinsicsTrial) =>
    /\ Stages(trace) \subseteq {"calibration", "cachewrite"}
    /\ locals = FreshLocals
    /\ pc \in {"calib", "save", "select", "finish", "returned", "raised"}
    /\ failed \subseteq {"calibration"}
\* an extrinsics trial returned after computing and saving the cameras,
\* called with the offset argument set
C16_Witness ==
  /\ args.extrinsicsTrial /\ pc = "returned" /\ written = Cameras
  /\ args.offset /\ args.alternateExtrinsics.given

\* C17: a run that finds a cache entry for every camera writes no cache
\* entry at any point; a calibration stage that has ended after computing
\* at least one camera has written the entry of every camera, loaded and
\* computed alike; and when the calibration stage has ended every camera has
\* a cache entry.
C17_CacheWriteFrame ==
  InRun =>
    /\ (\A cam \in Cameras : cacheAtStart[cam].kind # "nofile") =>
         (written = {} /\ cache = cacheAtStart
            /\ "cachewrite" \notin Stages(trace))
    /\ (calibDone /\ \E cam \in Cameras : loadedCamParams[cam] = "computed") =>
         (written = Cameras /\ "cachewrite" \in Stages(trace))
    /\ calibDone => \A cam \in Cameras : cache[cam].kind # "nofile"
\* the calibration stage ended with one camera loaded and one computed, and
\* has written both entries
C17_Witness ==
  /\ calibDone /\ written = Cameras
  /\ \E cam, other \in Cameras :
       loadedCamParams[cam] = "loaded" /\ loadedCamParams[other] = "computed"
\* the calibration stage ended with every camera loaded and nothing written
C17_WitnessLoaded ==
  /\ calibDone /\ written = {}
  /\ \A cam \in Cameras : loadedCamParams[cam] = "loaded"

\* the threshold t is not above 0.015
NotAboveMax(t) == t.milli < 15 \/ (t.milli = 15 /\ t.residual <= 0)
\* C18: the search of the scaling time range starts at 0.003; every failed
\* attempt raises the threshold by 0.001 and every attempt is made at a
\* threshold not above 0.015, so the search ends after at most twelve
\* attempts; it ends at the first success; the scale tool runs only with a
\* time range, and a run whose search has ended without success has failed
\* with the scaling error.
C18_TimeRangeSearch ==
  /\ [](/\ pc = "timerange" =>
             (locals.thresholdPosition.milli \in 3..15
                /\ ~locals.timeRange4Scaling)
        /\ "scaling" \in Stages(trace) => locals.timeRange4Scaling
        /\ (pc = "raised" /\ args.scaleModel /\ "scaling" \notin Stages(trace)
              /\ "augmentation" \in Stages(trace)
              /\ "augmentation" \notin failed) =>
             (err = Error(2, "scaling") /\ ~locals.timeRange4Scaling))
  /\ [][/\ (pc # "timerange" /\ pc' = "timerange") =>
             locals'.thresholdPosition = [milli |-> 3, residual |-> 0]
        /\ pc = "timerange" =>
             /\ pc' \in {"timerange", "scale"}
             /\ pc' = "timerange" =>
                  /\ NotAboveMax(locals.thresholdPosition)
                  /\ locals'.thresholdPosition.milli =
                       locals.thresholdPosition.milli + 1
                  /\ ~locals'.timeRange4Scaling
             /\ (pc' = "scale" /\ locals'.timeRange4Scaling) =>
                  NotAboveMax(locals.thresholdPosition)
             /\ (pc' = "scale" /\ ~locals'.timeRange4Scaling) =>
                  locals.thresholdPosition.milli = 15]_vars
\* every attempt of the search failed and main failed with the scaling error
C18_Witness ==
  /\ pc = "raised" /\ err = Error(2, "scaling")
  /\ "augmentation" \in Stages(trace) /\ ~locals.timeRange4Scaling
\* the search succeeded at its last attempt
C18_WitnessLast ==
  /\ pc = "timerange" /\ locals.thresholdPosition.milli = 14

WallPresets == {"backWall", "backWall_largeCB", "backWall_walking"}
FloorPresets == {"ground", "ground_jumps", "ground_gaits"}
Family(mount) == IF mount \in WallPresets THEN WallPresets ELSE FloorPresets
\* the lookup of the run has resolved a rotation sequence
Resolved == pc = "pose" /\ locals.rotationBound
\* C19 as claimed: a sequence is resolved for every preset and flag, and
\* the upside-down flag changes the sequence resolved for presets of the
\* wall-mounted and of the floor-mounted family alike: in the family of
\* the session's preset there is a preset for which the flag matters.
C19_ClaimedFlagEffect ==
  Resolved =>
    /\ placement \in Presets /\ locals.rotationAngles # NoRotation
    /\ \E mount \in Family(placement) :
         RotationAngles(mount, TRUE) # RotationAngles(mount, FALSE)
\* C19: for each of the six presets and each value of the flag the lookup
\* resolves one non-empty rotation sequence, the one the run then holds;
\* the flag changes the sequence of backWall and of no other preset.
C19_RotationLookup ==
  /\ \A mount \in Presets : \A upsideDown \in BOOLEAN :
       RotationAngles(mount, upsideDown) # NoRotation
  /\ \A mount \in Presets :
       (RotationAngles(mount, TRUE) # RotationAngles(mount, FALSE))
         <=> mount = "backWall"
  /\ Resolved =>
       /\ placement \in Presets /\ locals.rotationAngles # NoRotation
       /\ \E upsideDown \in BOOLEAN :
            locals.rotationAngles = RotationAngles(placement, upsideDown)
  /\ (pc = "raised" /\ err.kind = "placement") =>
       (placement \notin Presets /\ ~locals.rotationBound)
\* the lookup resolved the sequence of an upside-down backWall board
C19_Witness ==
  /\ Resolved /\ placement = "backWall"
  /\ locals.rotationAngles = <<<<"y", -90>>>>
\* the lookup resolved the sequence of a floor-mounted preset
C19_WitnessFloor ==
  /\ Resolved /\ placement = "ground_jumps"
  /\ locals.rotationAngles = <<<<"x", 90>>, <<"y", 180>>>>

\* the worker is done with the trial processTrial was invoked on
TrialHandled == outcome # "none" /\ wpc \in {"cleanup", "dequeue"}
\* C13: once the worker is done with a trial it invoked processTrial on,
\* the API has received exactly one status for it, "done" if processTrial
\* returned and "error" if it raised; never both statuses for one trial,
\* and never "done" for a trial whose processing raised.
C13_StatusReporting ==
  /\ TrialHandled =>
       reported = <<IF outcome = "returned" THEN "done" ELSE "error">>
  /\ ~({"done", "error"} \subseteq Stages(reported))
  /\ outcome = "raised" => "done" \notin Stages(reported)

\* C20: whenever the worker is about to issue a dequeue request, or holds a
\* dequeued trial it has not yet passed to processTrial, the Data directory
\* has no folder: the folders of every earlier trial were removed, whether
\* processTrial returned or raised for it.
C20_DataCleanup ==
  wpc \in {"dequeue", "novideos", "nullvideo", "process"} => data = {}
\* back at the dequeue request after a trial whose processing raised
C20_Witness ==
  /\ wpc = "dequeue" /\ outcome = "raised" /\ reported = <<"error">>
  /\ data = {}
\* back at the dequeue request after a trial whose processing returned
C20_WitnessReturned ==
  /\ wpc = "dequeue" /\ outcome = "returned" /\ reported = <<"done">>
  /\ data = {}

\* the worker holds a dequeued trial and is past the checks of its videos
\* and past the status update of a trial without usable videos
PastVideoChecks == trial # NoTrial /\ wpc \notin {"novideos", "nullvideo"}
\* C21: processTrial is invoked only on a trial that has videos, all with
\* files; a dequeued trial of any other kind has been reported with status
\* "error", once, and the worker is back at its dequeue request without
\* having invoked processTrial.
C21_UnusableTrials ==
  /\ (wpc \in {"process", "reportDone", "reportError", "cleanup"}
        \/ outcome # "none") => trial.videos = "ok"
  /\ (PastVideoChecks /\ trial.videos # "ok") =>
       (wpc = "dequeue" /\ reported = <<"error">> /\ outcome = "none")

\* C22: the polling loop never terminates: whatever the API answered to a
\* dequeue request or a status update and however a trial ended, the worker
\* is in its loop, on its way to the next dequeue request.
C22_NeverStopsPolling ==
  wpc \in {"dequeue", "novideos", "nullvideo", "process", "reportDone",
           "reportError", "cleanup"}

\* C23: in a run whose alternateExtrinsics names a camera that has a cache
\* entry, the camera is loaded and not computed, the parameters the run
\* holds for it are the cached ones (the selector does not run either), and
\* its cache entry keeps the content it had when the run started.
C23_CachePrecedence ==
  \A cam \in Cameras :
    (InRun /\ cacheAtStart[cam].kind # "nofile"
       /\ args.alternateExtrinsics.given
       /\ cam \in args.alternateExtrinsics.cams) =>
      /\ cam \notin computed
      /\ loadedCamParams[cam] \in {"unset", "loaded"}
      /\ loadedCamParams[cam] = "loaded" =>
           (CamParamDict[cam] = cacheAtStart[cam]
              /\ CamParamDict[cam].second = cacheAtStart[cam].second)
      /\ "select" \notin Stages(trace)
      /\ cache[cam] = cacheAtStart[cam]
\* the camera named in alternateExtrinsics was cached with the default
\* solution; the run saved the cameras again and went on to triangulate
C23_Witness ==
  /\ args.alternateExtrinsics.given /\ "triangulation" \in Stages(trace)
  /\ \E cam \in args.alternateExtrinsics.cams :
       /\ cacheAtStart[cam].kind = "ext" /\ ~cacheAtStart[cam].second
       /\ cam \in written /\ CamParamDict[cam] = cacheAtStart[cam]

\* C24: the placement is checked only after the calibration stage has
\* ended: a run that fails on an unknown placement has computed its
\* uncached cameras and written the cache entry of every camera before;
\* and an extrinsics trial of a session with an unknown placement, once its
\* calibration stage has ended, ends without an error.
C24_LatePlacementCheck ==
  /\ err.kind = "placement" =>
       /\ ~args.extrinsicsTrial /\ calibDone
       /\ \A cam \in Cameras :
            /\ cache[cam].kind # "nofile"
            /\ cacheAtStart[cam].kind = "nofile" =>
                 (cam \in computed /\ cam \in written)
  /\ (InRun /\ args.extrinsicsTrial /\ placement \notin Presets /\ calibDone)
       => pc # "raised"

\* C25: no video is started on twice; whenever the loop is waiting, the
\* file at video_path, if any, is one no round has started on (the input of
\* every round was removed at the end of the round, whether the inference
\* returned or raised); the loop has not ended; and every file under
\* output_dir was written by the last round started.
C25_ConsumesOnce ==
  /\ \A i, j \in 1..Len(begun) : i # j => begun[i] # begun[j]
  /\ mpc = "wait" =>
       (videoFile = NoVideo \/ \A i \in 1..Len(begun) : begun[i] # videoFile)
  /\ mpc \in {"start", "wait", "detect", "pose", "except"}
  /\ round = Len(begun)
  /\ round > 0 => \A f \in outputDir : f.round = round
\* the loop waits again after two rounds on two videos, the last of which
\* failed after the detection had written its file
C25_Witness ==
  /\ mpc = "wait" /\ videoFile = NoVideo /\ Len(begun) = 2
  /\ \E f \in outputDir : f.name = "box.pkl" /\ f.round = 2
\* the loop waits again after a round that succeeded, started with a stale
\* result under output_dir
C25_WitnessReturned ==
  /\ mpc = "wait" /\ videoFile = NoVideo /\ round = 1
  /\ outputDir = {[name |-> "human.pkl", round |-> 1]}

====
